---- MODULE Spec2Model ----
(***************************************************************************)
(* Model of the floor plan pipeline of src/floorplan_pipeline.py and       *)
(* src/nerfstudio_automate.py: train_and_export_floorplan (trainer,        *)
(* exporter, newest-file selection) and generate_floorplan_from_mesh       *)
(* (slice, SVG export, PNG rasterization).                                 *)
(*                                                                         *)
(* The external tools (ns-train, ns-export, trimesh, PIL, numpy) are not   *)
(* part of the repository.  What they do in a run is an input of the run,  *)
(* the record scen[r]: exit codes, the artifacts they write and their      *)
(* modification times, the mesh geometry, and the library call (if any)    *)
(* that raises.                                                            *)
(***************************************************************************)
EXTENDS Integers, Sequences, FiniteSets, TLC

VARIABLES
    scen,          \* [Runs -> scenario]: inputs and external tools' behaviour of each run
    impl,          \* [Runs -> Impls]: the source file whose pipeline the run executes
    output_dir,    \* [Runs -> OutDirs]
    fs_configs,    \* the config.yml files that exist: records [out, dir, mtime]
    fs_plys,       \* the .ply files that exist: records [out, dir, name, mtime, mesh]
    fs_dirs,       \* the exports/mesh directories that exist: records [out, dir]
    fs_listing,    \* the order directories enumerate their entries in: "forward" or "reverse"
    fs_floorplan,  \* [OutDirs -> [svg, png]]: last writer of <out>/floorplan/floorplan.{svg,png}
    pc,            \* [Runs -> position in the code]
    calls,         \* [Runs -> sequence of invocations: ns-train, ns-export, generate_floorplan_from_mesh]
    returned,      \* [Runs -> return of train_and_export_floorplan: "none", "True", "False", "raised"]
    config_path,   \* [Runs -> the selected config.yml]
    mesh_path,     \* [Runs -> the selected .ply]
    mesh,          \* [Runs -> the loaded mesh]
    slice_2d,      \* [Runs -> the section: None, the 3D path, then the planar path]
    sliced,        \* [Runs -> heights mesh.section was called at]
    drawn,         \* [Runs -> polylines drawn on the canvas, in order]
    wrote,         \* [Runs -> files written by the run's rasterizer, in order]
    exc,           \* [Runs -> the step whose exception the rasterizer caught, or "none"]
    success,       \* [Runs -> return of generate_floorplan_from_mesh: "none", "True", "False"]
    overlapped,    \* a run started on an output directory another run was active on
    fresh,         \* [Runs -> [cfg, ply]]: the run's tool wrote its artifact strictly newer than every candidate present
    files,         \* selection alone: the candidate list, in the glob's enumeration order
    selected       \* selection alone: the file sorted(files, key=mtime)[-1], or NoFile

vars == <<scen, impl, output_dir, fs_listing, fs_configs, fs_plys, fs_dirs, fs_floorplan, pc,
          calls, returned, config_path, mesh_path, mesh, slice_2d, sliced, drawn,
          wrote, exc, success, overlapped, fresh, files, selected>>

fsVars   == <<fs_listing, fs_configs, fs_plys, fs_dirs, fs_floorplan>>
selVars  == <<files, selected>>
envVars  == <<scen, impl, output_dir>>
gVars    == <<mesh, slice_2d, sliced, drawn, wrote, exc, success>>

(***************************************************************************)
(* Bounds of the model.                                                    *)
(***************************************************************************)
MaxMtime    == 3   \* modification times are 1..MaxMtime
MaxFiles    == 4   \* length of a candidate list (selection alone)
MaxVerts    == 2   \* vertices of a slice (rasterizer alone)
MaxEntities == 2   \* entities of a slice (rasterizer alone)
MaxPts      == 2   \* point indices of an entity (rasterizer alone)

(***************************************************************************)
(* Program constants.                                                      *)
(***************************************************************************)
img_size    == 2000  \* canvas side, pixels
Padding     == 50    \* margin, pixels
SliceOffset == 1     \* 0.1 above the lowest point; heights are in tenths

Runs    == {"r1", "r2"}
Impls   == {"floorplan_pipeline", "nerfstudio_automate"}
OutDirs == {"outA", "outB"}
OldMtime == MaxMtime - 1   \* modification time of the artifacts a previous run left

Other(r) == CHOOSE q \in Runs : q # r

(***************************************************************************)
(* Meshes.  Heights are integers in tenths of the mesh's unit.  verts are  *)
(* the XY coordinates of the section's vertices, entities the polylines    *)
(* (sequences of vertex indices).                                          *)
(***************************************************************************)
NoMesh     == [zmin |-> 0, zmax |-> 0, verts |-> <<>>, entities |-> <<>>]
FlatMesh   == [zmin |-> 0, zmax |-> 0, verts |-> <<>>, entities |-> <<>>]
SquareMesh == [zmin |-> 0, zmax |-> 20,
               verts |-> << <<0, 0>>, <<10, 0>>, <<10, 10>>, <<0, 10>> >>,
               entities |-> << <<1, 2, 3, 4, 1>> >>]
WallMesh   == [zmin |-> 0, zmax |-> 20,
               verts |-> << <<3, 0>>, <<3, 10>> >>,
               entities |-> << <<1, 2>> >>]

None == [is_none |-> TRUE, verts |-> <<>>, entities |-> <<>>]

NoFile   == [name |-> 0, mtime |-> 0]
NoConfig == [out |-> "none", dir |-> "none", mtime |-> 0]
NoPly    == [out |-> "none", dir |-> "none", name |-> "none", mtime |-> 0, mesh |-> NoMesh]

(***************************************************************************)
(* Selection of the newest file: sorted(files, key=lambda x: mtime)[-1].   *)
(* Python's sorted is stable: files of equal mtime keep their order.       *)
(***************************************************************************)
InsertByMtime(s, x) ==
    LET k == Cardinality({i \in 1..Len(s) : s[i].mtime <= x.mtime})
    IN  SubSeq(s, 1, k) \o <<x>> \o SubSeq(s, k + 1, Len(s))

RECURSIVE SortedByMtime(_)
SortedByMtime(fs) ==
    IF fs = <<>> THEN <<>>
    ELSE InsertByMtime(SortedByMtime(SubSeq(fs, 1, Len(fs) - 1)), fs[Len(fs)])

Oldest(fs) == SortedByMtime(fs)[1]

FirstOfNewest(fs) ==
    LET top == CHOOSE m \in {fs[i].mtime : i \in 1..Len(fs)} :
                   \A i \in 1..Len(fs) : fs[i].mtime <= m
        k   == CHOOSE i \in 1..Len(fs) :
                   fs[i].mtime = top /\ \A j \in 1..(i - 1) : fs[j].mtime # top
    IN  fs[k]

Newest(fs) == SortedByMtime(fs)[Len(SortedByMtime(fs))]

\* list(dir.glob(pattern)): the matching files in the directory's enumeration
\* order, which the file system decides (fs_listing): by name, forward or reverse
Rank(n) == CASE n = "old" -> 0 [] n = "r1" -> 1 [] n = "r2" -> 2 [] OTHER -> 3

Glob(S, rk) ==
    IF S = {} THEN <<>>
    ELSE CHOOSE f \in [1..Cardinality(S) -> S] :
            \A i, j \in 1..Cardinality(S) :
                i < j => IF fs_listing = "forward" THEN rk[f[i]] < rk[f[j]]
                                                   ELSE rk[f[i]] > rk[f[j]]

ConfigsUnder(out) == {c \in fs_configs : c.out = out}
PlysIn(out, dir)  == {m \in fs_plys : m.out = out /\ m.dir = dir}

\* list(output_dir.glob("**/config.yml"))
GlobConfigs(out) == Glob(ConfigsUnder(out), [c \in ConfigsUnder(out) |-> Rank(c.dir)])

\* list(export_dir.glob("*.ply"))
GlobPlys(out, dir) == Glob(PlysIn(out, dir), [m \in PlysIn(out, dir) |-> Rank(m.name)])

(***************************************************************************)
(* The rasterizer's computations.                                          *)
(***************************************************************************)
\* mesh.section(plane_origin=[0, 0, h], plane_normal=[0, 0, 1]): None when the
\* plane meets no geometry, else the 3D path of the cross-section at height h
Section(m, h) ==
    IF h < m.zmin \/ h > m.zmax THEN None
    ELSE [is_none  |-> FALSE,
          verts    |-> [i \in 1..Len(m.verts) |-> <<m.verts[i][1], m.verts[i][2], h>>],
          entities |-> m.entities]

\* slice_2d.to_planar(): the path in the plane's own 2D coordinates
ToPlanar(s) ==
    [s EXCEPT !.verts = [i \in 1..Len(s.verts) |-> <<s.verts[i][1], s.verts[i][2]>>]]

AxisMin(vs, a) == CHOOSE m \in {vs[i][a] : i \in 1..Len(vs)} : \A i \in 1..Len(vs) : m <= vs[i][a]
AxisMax(vs, a) == CHOOSE m \in {vs[i][a] : i \in 1..Len(vs)} : \A i \in 1..Len(vs) : m >= vs[i][a]

ZeroExtent(vs) == \E a \in {1, 2} : AxisMax(vs, a) = AxisMin(vs, a)

\* one coordinate: (v - min) / (max - min) * (img_size - 100) + 50, as the pixel
\* it falls in; 0/0 is numpy's nan when numpy does not raise
NaN == [nan |-> TRUE, px |-> 0]
Pixel(v, lo, hi) ==
    IF hi = lo THEN NaN
    ELSE [nan |-> FALSE, px |-> ((v - lo) * (img_size - 100)) \div (hi - lo) + Padding]

Normalize(vs) ==
    [i \in 1..Len(vs) |->
        <<Pixel(vs[i][1], AxisMin(vs, 1), AxisMax(vs, 1)),
          Pixel(vs[i][2], AxisMin(vs, 2), AxisMax(vs, 2))>>]

DrawableFrom3(points) == Len(points) > 2

\* if len(points) > 1
Drawable(points) == Len(points) > 1

\* for entity in slice_2d.entities: points = vertices[entity.points]; draw.line
DrawEntities(vertices, entities) ==
    LET line(k) == [entity |-> k,
                    points |-> [j \in 1..Len(entities[k]) |-> vertices[entities[k][j]]]]
        F[k \in 0..Len(entities)] ==
            IF k = 0 THEN <<>>
            ELSE IF Drawable(line(k).points) THEN Append(F[k - 1], line(k))
            ELSE F[k - 1]
    IN  F[Len(entities)]

(***************************************************************************)
(* train_and_export_floorplan, one action per stage.                       *)
(***************************************************************************)
Running(q) == pc[q] \notin {"start", "done"}

Invocation(tool, out, dir, name) == [tool |-> tool, out |-> out, dir |-> dir, name |-> name]

\* return False
ReturnFalse(r) ==
    /\ returned' = [returned EXCEPT ![r] = "False"]
    /\ pc' = [pc EXCEPT ![r] = "done"]

\* if not data_dir.exists(): ... if not colmap_sparse_path.exists(): ...
\* (floorplan_pipeline.py only: nerfstudio_automate.py has no such check)
MissingInput(r) ==
    /\ impl[r] = "floorplan_pipeline"
    /\ (~scen[r].data_exists \/ ~scen[r].colmap_exists)

Begin(r) ==
    /\ pc[r] = "start"
    /\ overlapped' = (overlapped \/ (Running(Other(r)) /\ output_dir[Other(r)] = output_dir[r]))
    /\ IF MissingInput(r)
       THEN ReturnFalse(r)
       ELSE pc' = [pc EXCEPT ![r] = "train"] /\ UNCHANGED returned
    /\ UNCHANGED <<envVars, fsVars, calls, config_path, mesh_path, gVars, fresh, selVars>>

\* what ns-train leaves under --output-dir: a config.yml in a directory of its own, or nothing
TrainerWrites(r) ==
    IF scen[r].cfg_mtime = 0 THEN {}
    ELSE {[out |-> output_dir[r], dir |-> r, mtime |-> scen[r].cfg_mtime]}

TrainingNeverFailed(r) == FALSE

\* if result.returncode != 0 (ns-train)
TrainingFailed(r) == scen[r].train_rc # 0

RunTrainer(r) ==
    /\ pc[r] = "train"
    /\ calls' = [calls EXCEPT ![r] = Append(@, Invocation("ns-train", output_dir[r], "", ""))]
    /\ fs_configs' = fs_configs \cup TrainerWrites(r)
    /\ fresh' = [fresh EXCEPT ![r].cfg =
                    /\ scen[r].cfg_mtime > 0
                    /\ \A c \in ConfigsUnder(output_dir[r]) : c.mtime < scen[r].cfg_mtime]
    /\ IF TrainingFailed(r)
       THEN ReturnFalse(r)
       ELSE pc' = [pc EXCEPT ![r] = "find_config"] /\ UNCHANGED returned
    /\ UNCHANGED <<envVars, fs_listing, fs_plys, fs_dirs, fs_floorplan, config_path, mesh_path,
                   gVars, overlapped, selVars>>

\* FindConfig without "if not config_files: return False", falling back on <output_dir>/config.yml
FindConfigUnchecked(r) ==
    /\ pc[r] = "find_config"
    /\ LET config_files == GlobConfigs(output_dir[r])
           chosen == IF Len(config_files) = 0
                     THEN [out |-> output_dir[r], dir |-> "", mtime |-> 0]
                     ELSE Newest(config_files)
       IN  /\ config_path' = [config_path EXCEPT ![r] = chosen]
           /\ fs_dirs' = fs_dirs \cup {[out |-> output_dir[r], dir |-> chosen.dir]}
           /\ pc' = [pc EXCEPT ![r] = "export"]
           /\ UNCHANGED returned
    /\ UNCHANGED <<envVars, fs_listing, fs_configs, fs_plys, fs_floorplan, calls, mesh_path,
                   gVars, overlapped, fresh, selVars>>

\* config_files = list(output_dir.glob("**/config.yml")) ... export_dir.mkdir(...)
FindConfig(r) ==
    /\ pc[r] = "find_config"
    /\ LET config_files == GlobConfigs(output_dir[r]) IN
          IF Len(config_files) = 0
          THEN ReturnFalse(r) /\ UNCHANGED <<config_path, fs_dirs>>
          ELSE /\ config_path' = [config_path EXCEPT ![r] = Newest(config_files)]
               /\ fs_dirs' = fs_dirs \cup {[out |-> output_dir[r], dir |-> Newest(config_files).dir]}
               /\ pc' = [pc EXCEPT ![r] = "export"]
               /\ UNCHANGED returned
    /\ UNCHANGED <<envVars, fs_listing, fs_configs, fs_plys, fs_floorplan, calls, mesh_path,
                   gVars, overlapped, fresh, selVars>>

\* what ns-export leaves in --output-dir: a .ply, or nothing
ExporterWrites(r) ==
    IF scen[r].ply_mtime = 0 THEN {}
    ELSE {[out |-> output_dir[r], dir |-> config_path[r].dir, name |-> r,
           mtime |-> scen[r].ply_mtime, mesh |-> scen[r].mesh]}

\* if result.returncode != 0 (ns-export)
ExportFailed(r) == scen[r].export_rc # 0

RunExporter(r) ==
    /\ pc[r] = "export"
    /\ calls' = [calls EXCEPT ![r] =
                    Append(@, Invocation("ns-export", output_dir[r], config_path[r].dir, "config.yml"))]
    /\ fs_plys' = fs_plys \cup ExporterWrites(r)
    /\ fresh' = [fresh EXCEPT ![r].ply =
                    /\ scen[r].ply_mtime > 0
                    /\ \A m \in PlysIn(output_dir[r], config_path[r].dir) : m.mtime < scen[r].ply_mtime]
    /\ IF ExportFailed(r)
       THEN ReturnFalse(r)
       ELSE pc' = [pc EXCEPT ![r] = "find_mesh"] /\ UNCHANGED returned
    /\ UNCHANGED <<envVars, fs_listing, fs_configs, fs_dirs, fs_floorplan, config_path, mesh_path,
                   gVars, overlapped, selVars>>

\* mesh_files = list(export_dir.glob("*.ply")) ... generate_floorplan_from_mesh(mesh_path, ...)
FindMesh(r) ==
    /\ pc[r] = "find_mesh"
    /\ LET mesh_files == GlobPlys(output_dir[r], config_path[r].dir) IN
          IF Len(mesh_files) = 0
          THEN ReturnFalse(r) /\ UNCHANGED <<mesh_path, calls>>
          ELSE /\ mesh_path' = [mesh_path EXCEPT ![r] = Newest(mesh_files)]
               /\ calls' = [calls EXCEPT ![r] =
                              Append(@, Invocation("generate_floorplan_from_mesh", output_dir[r],
                                                   Newest(mesh_files).dir, Newest(mesh_files).name))]
               /\ pc' = [pc EXCEPT ![r] = "g_load"]
               /\ UNCHANGED returned
    /\ UNCHANGED <<envVars, fsVars, config_path, gVars, overlapped, fresh, selVars>>

\* "return True" in place of "return success"
ReturnTrue(r) ==
    /\ pc[r] = "return"
    /\ returned' = [returned EXCEPT ![r] = "True"]
    /\ pc' = [pc EXCEPT ![r] = "done"]
    /\ UNCHANGED <<envVars, fsVars, calls, config_path, mesh_path, gVars, overlapped,
                   fresh, selVars>>

\* success = generate_floorplan_from_mesh(...) ... return success
ReturnSuccess(r) ==
    /\ pc[r] = "return"
    /\ returned' = [returned EXCEPT ![r] = success[r]]
    /\ pc' = [pc EXCEPT ![r] = "done"]
    /\ UNCHANGED <<envVars, fsVars, calls, config_path, mesh_path, gVars, overlapped,
                   fresh, selVars>>

(***************************************************************************)
(* generate_floorplan_from_mesh, one action per library call inside the    *)
(* try block.  scen[r].raiseAt names the call that raises in this run.     *)
(***************************************************************************)
\* the exception leaves generate_floorplan_from_mesh and train_and_export_floorplan
Propagate(r, step) ==
    /\ exc' = [exc EXCEPT ![r] = step]
    /\ returned' = [returned EXCEPT ![r] = "raised"]
    /\ pc' = [pc EXCEPT ![r] = "done"]
    /\ UNCHANGED success

\* except Exception as e: ... return False
Except(r, step) ==
    /\ exc' = [exc EXCEPT ![r] = step]
    /\ success' = [success EXCEPT ![r] = "False"]
    /\ pc' = [pc EXCEPT ![r] = "return"]
    /\ UNCHANGED returned

Continue(r, label) ==
    /\ pc' = [pc EXCEPT ![r] = label]
    /\ UNCHANGED <<exc, success, returned>>

\* mesh = trimesh.load(mesh_path)
Load(r) ==
    /\ pc[r] = "g_load"
    /\ IF scen[r].raiseAt = "load"
       THEN Except(r, "load") /\ UNCHANGED mesh
       ELSE mesh' = [mesh EXCEPT ![r] = mesh_path[r].mesh] /\ Continue(r, "g_section")
    /\ UNCHANGED <<envVars, fsVars, calls, config_path, mesh_path, slice_2d, sliced,
                   drawn, wrote, overlapped, fresh, selVars>>

\* slice_height = mesh.bounds[0][2] + 0.1
slice_height(r) == mesh[r].zmin + SliceOffset

\* Slice retrying at the lowest point when the section at slice_height is None
SliceRetry(r) ==
    /\ pc[r] = "g_section"
    /\ IF scen[r].raiseAt = "section"
       THEN Except(r, "section") /\ UNCHANGED <<slice_2d, sliced>>
       ELSE IF Section(mesh[r], slice_height(r)).is_none
       THEN /\ sliced' = [sliced EXCEPT ![r] = @ \o <<slice_height(r), mesh[r].zmin>>]
            /\ slice_2d' = [slice_2d EXCEPT ![r] = Section(mesh[r], mesh[r].zmin)]
            /\ Continue(r, "g_planar")
       ELSE /\ sliced' = [sliced EXCEPT ![r] = Append(@, slice_height(r))]
            /\ slice_2d' = [slice_2d EXCEPT ![r] = Section(mesh[r], slice_height(r))]
            /\ Continue(r, "g_planar")
    /\ UNCHANGED <<envVars, fsVars, calls, config_path, mesh_path, mesh, drawn, wrote,
                   overlapped, fresh, selVars>>

\* slice_2d = mesh.section(...); if slice_2d is None: return False
Slice(r) ==
    /\ pc[r] = "g_section"
    /\ IF scen[r].raiseAt = "section"
       THEN Except(r, "section") /\ UNCHANGED <<slice_2d, sliced>>
       ELSE /\ sliced' = [sliced EXCEPT ![r] = Append(@, slice_height(r))]
            /\ slice_2d' = [slice_2d EXCEPT ![r] = Section(mesh[r], slice_height(r))]
            /\ IF Section(mesh[r], slice_height(r)).is_none
               THEN /\ success' = [success EXCEPT ![r] = "False"]
                    /\ pc' = [pc EXCEPT ![r] = "return"]
                    /\ UNCHANGED <<exc, returned>>
               ELSE Continue(r, "g_planar")
    /\ UNCHANGED <<envVars, fsVars, calls, config_path, mesh_path, mesh, drawn, wrote,
                   overlapped, fresh, selVars>>

\* slice_2d, _ = slice_2d.to_planar()
Planar(r) ==
    /\ pc[r] = "g_planar"
    /\ IF scen[r].raiseAt = "to_planar"
       THEN Except(r, "to_planar") /\ UNCHANGED slice_2d
       ELSE slice_2d' = [slice_2d EXCEPT ![r] = ToPlanar(@)] /\ Continue(r, "g_export")
    /\ UNCHANGED <<envVars, fsVars, calls, config_path, mesh_path, mesh, sliced, drawn,
                   wrote, overlapped, fresh, selVars>>

\* slice_2d.export(str(svg_path))
ExportSvg(r) ==
    /\ pc[r] = "g_export"
    /\ IF scen[r].raiseAt = "export"
       THEN Except(r, "export") /\ UNCHANGED <<fs_floorplan, wrote>>
       ELSE /\ fs_floorplan' = [fs_floorplan EXCEPT ![output_dir[r]].svg = r]
            /\ wrote' = [wrote EXCEPT ![r] = Append(@, "floorplan.svg")]
            /\ Continue(r, "g_draw")
    /\ UNCHANGED <<envVars, fs_listing, fs_configs, fs_plys, fs_dirs, calls, config_path, mesh_path,
                   mesh, slice_2d, sliced, drawn, overlapped, fresh, selVars>>

\* from PIL import ...; img = Image.new(...); if len(vertices) > 0: normalize, draw
Draw(r) ==
    /\ pc[r] = "g_draw"
    /\ IF scen[r].raiseAt = "draw"
       THEN Except(r, "draw") /\ UNCHANGED drawn
       ELSE IF Len(slice_2d[r].verts) > 0 /\ ZeroExtent(slice_2d[r].verts) /\ scen[r].fp_error
       THEN Except(r, "normalize") /\ UNCHANGED drawn
       ELSE /\ drawn' = [drawn EXCEPT ![r] =
                            IF Len(slice_2d[r].verts) > 0
                            THEN DrawEntities(Normalize(slice_2d[r].verts), slice_2d[r].entities)
                            ELSE <<>>]
            /\ Continue(r, "g_save")
    /\ UNCHANGED <<envVars, fsVars, calls, config_path, mesh_path, mesh, slice_2d, sliced,
                   wrote, overlapped, fresh, selVars>>

\* img.save(str(png_path)); return True
SavePng(r) ==
    /\ pc[r] = "g_save"
    /\ IF scen[r].raiseAt = "save"
       THEN Except(r, "save") /\ UNCHANGED <<fs_floorplan, wrote>>
       ELSE /\ fs_floorplan' = [fs_floorplan EXCEPT ![output_dir[r]].png = r]
            /\ wrote' = [wrote EXCEPT ![r] = Append(@, "floorplan.png")]
            /\ success' = [success EXCEPT ![r] = "True"]
            /\ pc' = [pc EXCEPT ![r] = "return"]
            /\ UNCHANGED <<exc, returned>>
    /\ UNCHANGED <<envVars, fs_listing, fs_configs, fs_plys, fs_dirs, calls, config_path, mesh_path,
                   mesh, slice_2d, sliced, drawn, overlapped, fresh, selVars>>

generate_floorplan_from_mesh(r) ==
    \/ Load(r)
    \/ Slice(r)
    \/ Planar(r)
    \/ ExportSvg(r)
    \/ Draw(r)
    \/ SavePng(r)

train_and_export_floorplan(r) ==
    \/ Begin(r)
    \/ RunTrainer(r)
    \/ FindConfig(r)
    \/ RunExporter(r)
    \/ FindMesh(r)
    \/ generate_floorplan_from_mesh(r)
    \/ ReturnSuccess(r)

(***************************************************************************)
(* The selection alone, on an arbitrary candidate list.                    *)
(***************************************************************************)
SelectNewest ==
    /\ selected = NoFile
    /\ Len(files) > 0
    /\ selected' = Newest(files)
    /\ UNCHANGED <<envVars, fsVars, pc, calls, returned, config_path, mesh_path, gVars,
                   overlapped, fresh, files>>

(***************************************************************************)
(* Scenarios: the inputs of a run and what the external tools do in it.    *)
(***************************************************************************)
Faults == {"none", "load", "section", "to_planar", "export", "draw", "save"}

\* fp_error (numpy raising on 0/0 instead of giving nan) only matters for a
\* slice of zero extent on an axis that reaches the normalization
RasterCase(m, f, e) ==
    /\ (m = FlatMesh => f \in {"none", "load", "section"})
    /\ (m = WallMesh => f = "none")
    /\ (e => m = WallMesh)

Scenarios ==
    {s \in [data_exists : BOOLEAN, colmap_exists : BOOLEAN,
            train_rc : {0, 1}, cfg_mtime : 0..MaxMtime,
            export_rc : {0, 1}, ply_mtime : 0..MaxMtime,
            stale : BOOLEAN,
            mesh : {FlatMesh, SquareMesh, WallMesh},
            raiseAt : Faults, fp_error : BOOLEAN] :
        RasterCase(s.mesh, s.raiseAt, s.fp_error)}

\* runs that share an output directory: the inputs exist, the rasterizer meets no fault
RunScenarios ==
    [data_exists : {TRUE}, colmap_exists : {TRUE},
     train_rc : {0, 1}, cfg_mtime : 0..MaxMtime,
     export_rc : {0, 1}, ply_mtime : 0..MaxMtime,
     stale : {FALSE},
     mesh : {SquareMesh},
     raiseAt : {"none"}, fp_error : {FALSE}]

\* the artifacts an earlier run left under an output directory
OldConfigs(outs) == {[out |-> o, dir |-> "old", mtime |-> OldMtime] : o \in outs}
OldPlys(outs) ==
    {[out |-> o, dir |-> "old", name |-> "old", mtime |-> OldMtime, mesh |-> SquareMesh] : o \in outs}

NoRunYet ==
    /\ fs_dirs = {}
    /\ fs_floorplan = [o \in OutDirs |-> [svg |-> "none", png |-> "none"]]
    /\ calls = [r \in Runs |-> <<>>]
    /\ returned = [r \in Runs |-> "none"]
    /\ mesh = [r \in Runs |-> NoMesh]
    /\ slice_2d = [r \in Runs |-> None]
    /\ sliced = [r \in Runs |-> <<>>]
    /\ drawn = [r \in Runs |-> <<>>]
    /\ wrote = [r \in Runs |-> <<>>]
    /\ exc = [r \in Runs |-> "none"]
    /\ success = [r \in Runs |-> "none"]
    /\ overlapped = FALSE
    /\ fresh = [r \in Runs |-> [cfg |-> FALSE, ply |-> FALSE]]

NoSelection ==
    /\ files = <<>>
    /\ selected = NoFile

\* Both source files' pipelines, each on an output directory of its own, on
\* the same inputs and the same behaviour of the external tools.
Init ==
    /\ \E s \in Scenarios :
          /\ scen = [r \in Runs |-> s]
          /\ fs_configs = (IF s.stale THEN OldConfigs(OutDirs) ELSE {})
          /\ fs_plys = (IF s.stale THEN OldPlys(OutDirs) ELSE {})
    /\ impl = [r \in Runs |-> IF r = "r1" THEN "floorplan_pipeline" ELSE "nerfstudio_automate"]
    /\ output_dir = [r \in Runs |-> IF r = "r1" THEN "outA" ELSE "outB"]
    /\ pc = [r \in Runs |-> "start"]
    /\ fs_listing \in {"forward", "reverse"}
    /\ config_path = [r \in Runs |-> NoConfig]
    /\ mesh_path = [r \in Runs |-> NoPly]
    /\ NoRunYet
    /\ NoSelection

Next == \E r \in Runs : train_and_export_floorplan(r)

Spec == Init /\ [][Next]_vars

\* Two runs on one output directory, starting in any order, overlapping or not.
InitRuns ==
    /\ scen \in [Runs -> RunScenarios]
    /\ fs_configs = {}
    /\ fs_plys = {}
    /\ impl = [r \in Runs |-> IF r = "r1" THEN "floorplan_pipeline" ELSE "nerfstudio_automate"]
    /\ output_dir = [r \in Runs |-> "outA"]
    /\ pc = [r \in Runs |-> "start"]
    /\ fs_listing \in {"forward", "reverse"}
    /\ config_path = [r \in Runs |-> NoConfig]
    /\ mesh_path = [r \in Runs |-> NoPly]
    /\ NoRunYet
    /\ NoSelection

NextRuns == \E r \in Runs : train_and_export_floorplan(r)

SpecRuns == InitRuns /\ [][NextRuns]_vars

\* generate_floorplan_from_mesh alone, called by r1 on any small mesh.
Points == {<<0, 0>>, <<0, 1>>, <<2, 1>>}

VertLists == UNION {[1..n -> Points] : n \in 0..MaxVerts}

\* an entity's point indices: up to MaxPts consecutive indices, cyclically
EntityShapes(n) ==
    {<<>>} \cup
    (IF n = 0 THEN {}
     ELSE {[j \in 1..k |-> ((s + j - 2) % n) + 1] : s \in 1..n, k \in 1..MaxPts})

EntityLists(n) == UNION {[1..k -> EntityShapes(n)] : k \in 0..MaxEntities}

Meshes ==
    {FlatMesh} \cup
    {[zmin |-> 0, zmax |-> 20, verts |-> vs, entities |-> es] :
        vs \in VertLists, es \in UNION {EntityLists(n) : n \in 0..MaxVerts}}

RasterScenarios ==
    {s \in [data_exists : {TRUE}, colmap_exists : {TRUE},
            train_rc : {0}, cfg_mtime : {1}, export_rc : {0}, ply_mtime : {1},
            stale : {FALSE}, mesh : Meshes, raiseAt : Faults, fp_error : BOOLEAN] :
        /\ \A k \in 1..Len(s.mesh.entities) : \A j \in 1..Len(s.mesh.entities[k]) :
              s.mesh.entities[k][j] <= Len(s.mesh.verts)
        /\ (s.fp_error => (s.raiseAt = "none" /\ Len(s.mesh.verts) > 0 /\ ZeroExtent(s.mesh.verts)))
        /\ (s.mesh = FlatMesh => s.raiseAt \in {"none", "load", "section"})}

InitRaster ==
    /\ \E s \in RasterScenarios :
          /\ scen = [r \in Runs |-> s]
          /\ fs_plys = {[out |-> "outA", dir |-> "r1", name |-> "r1", mtime |-> 1, mesh |-> s.mesh]}
          /\ fs_configs = {[out |-> "outA", dir |-> "r1", mtime |-> 1]}
          /\ config_path = [r \in Runs |-> IF r = "r1" THEN [out |-> "outA", dir |-> "r1", mtime |-> 1]
                                                        ELSE NoConfig]
          /\ mesh_path = [r \in Runs |->
                             IF r = "r1"
                             THEN [out |-> "outA", dir |-> "r1", name |-> "r1", mtime |-> 1, mesh |-> s.mesh]
                             ELSE NoPly]
    /\ impl = [r \in Runs |-> IF r = "r1" THEN "floorplan_pipeline" ELSE "nerfstudio_automate"]
    /\ output_dir = [r \in Runs |-> IF r = "r1" THEN "outA" ELSE "outB"]
    /\ pc = [r \in Runs |-> IF r = "r1" THEN "g_load" ELSE "done"]
    /\ fs_listing = "forward"
    /\ NoRunYet
    /\ NoSelection

NextRaster == \E r \in Runs : generate_floorplan_from_mesh(r)

SpecRaster == InitRaster /\ [][NextRaster]_vars

\* The selection alone.
FileLists ==
    UNION {{[i \in 1..n |-> [name |-> i, mtime |-> t[i]]] : t \in [1..n -> 1..MaxMtime]} :
              n \in 0..MaxFiles}

InitSelect ==
    /\ scen = [r \in Runs |-> CHOOSE s \in RunScenarios : TRUE]
    /\ fs_configs = {}
    /\ fs_plys = {}
    /\ impl = [r \in Runs |-> IF r = "r1" THEN "floorplan_pipeline" ELSE "nerfstudio_automate"]
    /\ output_dir = [r \in Runs |-> IF r = "r1" THEN "outA" ELSE "outB"]
    /\ pc = [r \in Runs |-> "done"]
    /\ fs_listing = "forward"
    /\ config_path = [r \in Runs |-> NoConfig]
    /\ mesh_path = [r \in Runs |-> NoPly]
    /\ NoRunYet
    /\ files \in FileLists
    /\ selected = NoFile

NextSelect == SelectNewest

SpecSelect == InitSelect /\ [][NextSelect]_vars

(***************************************************************************)
(* The claims.                                                             *)
(***************************************************************************)
Stages == <<"ns-train", "ns-export", "generate_floorplan_from_mesh">>

Called(r, tool) == \E i \in 1..Len(calls[r]) : calls[r][i].tool = tool

Done(r) == pc[r] = "done"

\* C1: the stages are invoked in order and at most once each; ns-export only
\* after ns-train exited 0, the rasterizer only after ns-export exited 0; a
\* nonzero exit code ends the run with False and no later stage.
C1_StagesGatedByExitCode ==
    \A r \in Runs :
        /\ Len(calls[r]) <= Len(Stages)
        /\ \A i \in 1..Len(calls[r]) : calls[r][i].tool = Stages[i]
        /\ (Called(r, "ns-export") => scen[r].train_rc = 0)
        /\ (Called(r, "generate_floorplan_from_mesh") => scen[r].export_rc = 0)
        /\ (Called(r, "ns-train") /\ scen[r].train_rc # 0
               => Done(r) /\ returned[r] = "False" /\ Len(calls[r]) = 1)
        /\ (Called(r, "ns-export") /\ scen[r].export_rc # 0
               => Done(r) /\ returned[r] = "False" /\ Len(calls[r]) = 2)

C1_Witness ==
    \E r \in Runs :
        /\ Called(r, "ns-export")
        /\ scen[r].train_rc = 0
        /\ scen[r].export_rc # 0
        /\ returned[r] = "False"

\* C2: when the data directory or the COLMAP path is missing, the run invokes
\* no subprocess and returns False, in both source files.
C2_MissingInputAborts ==
    \A r \in Runs :
        (~scen[r].data_exists \/ ~scen[r].colmap_exists)
            => /\ calls[r] = <<>>
               /\ (Done(r) => returned[r] = "False")

\* C3: the trainer exited 0 and no config.yml is under the output tree: the
\* run returns False, the exporter and the rasterizer are never invoked and
\* no exports/mesh directory is created.
C3_NoConfigNoExport ==
    \A r \in Runs :
        (Called(r, "ns-train") /\ scen[r].train_rc = 0 /\ ConfigsUnder(output_dir[r]) = {})
            => /\ Len(calls[r]) = 1
               /\ {d \in fs_dirs : d.out = output_dir[r]} = {}
               /\ pc[r] \in {"find_config", "done"}
               /\ (Done(r) => returned[r] = "False")

C3_Witness ==
    \E r \in Runs :
        /\ Called(r, "ns-train")
        /\ scen[r].train_rc = 0
        /\ ConfigsUnder(output_dir[r]) = {}
        /\ Done(r)
        /\ returned[r] = "False"

\* C4: the selected file has the greatest mtime of the list, and among the
\* files of that mtime it is the last in the enumeration order.
C4_NewestLastOfTies ==
    selected # NoFile =>
        \E k \in 1..Len(files) :
            /\ files[k] = selected
            /\ \A i \in 1..Len(files) : files[i].mtime <= selected.mtime
            /\ \A i \in 1..Len(files) : files[i].mtime = selected.mtime => i <= k

\* mtimes 1, 3, 2, 3: the two files of mtime 3 tie, the later listed one is selected
C4_Witness ==
    /\ Len(files) = 4
    /\ [i \in 1..4 |-> files[i].mtime] = <<1, 3, 2, 3>>
    /\ selected = files[4]

\* C5: the section at (minimum Z + 0.1) lies outside the mesh's Z extent and
\* the library returns None: the rasterizer returns False, has written
\* neither file, and has called the section once.
C5_NoSliceNoOutput ==
    \A r \in Runs :
        (Len(sliced[r]) > 0 /\ Section(mesh[r], sliced[r][1]).is_none)
            => /\ success[r] = "False"
               /\ wrote[r] = <<>>
               /\ fs_floorplan[output_dir[r]] = [svg |-> "none", png |-> "none"]
               /\ sliced[r] = <<mesh[r].zmin + SliceOffset>>
               /\ pc[r] \in {"return", "done"}

C5_Witness ==
    \E r \in Runs :
        /\ Len(sliced[r]) = 1
        /\ sliced[r][1] > mesh[r].zmax
        /\ success[r] = "False"
        /\ exc[r] = "none"

\* C6: a finished run whose inputs exist, whose tools exited 0 and left a
\* config.yml and a .ply, and whose mesh gave a slice with no exception,
\* returned True and wrote floorplan.svg then floorplan.png; and a run that
\* returned True wrote both.
EndToEndOk(r) ==
    /\ Done(r)
    /\ scen[r].data_exists /\ scen[r].colmap_exists
    /\ scen[r].train_rc = 0
    /\ ConfigsUnder(output_dir[r]) # {}
    /\ scen[r].export_rc = 0
    /\ PlysIn(output_dir[r], config_path[r].dir) # {}
    /\ ~Section(mesh_path[r].mesh, mesh_path[r].mesh.zmin + SliceOffset).is_none
    /\ exc[r] = "none"

C6_EndToEnd ==
    \A r \in Runs :
        /\ (EndToEndOk(r)
               => returned[r] = "True" /\ wrote[r] = <<"floorplan.svg", "floorplan.png">>)
        /\ (returned[r] = "True"
               => /\ wrote[r] = <<"floorplan.svg", "floorplan.png">>
                  /\ fs_floorplan[output_dir[r]] = [svg |-> r, png |-> r])

C6_Witness ==
    \E r \in Runs :
        /\ EndToEndOk(r)
        /\ scen[r].stale
        /\ returned[r] = "True"
        /\ wrote[r] = <<"floorplan.svg", "floorplan.png">>

\* C7: an exception at any step of the rasterization is caught: the
\* rasterizer returns False, the pipeline returns False and never raises, and
\* an SVG written before the exception stays.
C7_ExceptionsCaught ==
    \A r \in Runs :
        exc[r] # "none"
            => /\ success[r] = "False"
               /\ pc[r] \in {"return", "done"}
               /\ returned[r] = (IF Done(r) THEN "False" ELSE "none")
               /\ (exc[r] \in {"draw", "normalize", "save"}
                      => /\ wrote[r] = <<"floorplan.svg">>
                         /\ fs_floorplan[output_dir[r]].svg = r)

\* the zero-extent normalization raised, after the SVG was written
C7_Witness ==
    \E r \in Runs :
        /\ exc[r] = "normalize"
        /\ Done(r)
        /\ returned[r] = "False"
        /\ wrote[r] = <<"floorplan.svg">>

\* C8: once the drawing is done: with no vertices nothing is drawn; with
\* vertices, exactly the entities of at least 2 points are drawn, once each
\* and in order; when the save does not raise, the PNG is written and the
\* rasterizer returns True.
LongEntities(s) == {k \in 1..Len(s.entities) : Len(s.entities[k]) >= 2}

C8_DrawnEntities ==
    \A r \in Runs :
        (pc[r] \in {"g_save", "return", "done"} /\ exc[r] = "none" /\ ~slice_2d[r].is_none)
            => /\ (Len(slice_2d[r].verts) = 0 => drawn[r] = <<>>)
               /\ (Len(slice_2d[r].verts) > 0
                      => /\ {drawn[r][i].entity : i \in 1..Len(drawn[r])} = LongEntities(slice_2d[r])
                         /\ Len(drawn[r]) = Cardinality(LongEntities(slice_2d[r]))
                         /\ \A i \in 1..Len(drawn[r]) :
                               Len(drawn[r][i].points) = Len(slice_2d[r].entities[drawn[r][i].entity]))
               /\ (pc[r] # "g_save"
                      => /\ success[r] = "True"
                         /\ wrote[r] = <<"floorplan.svg", "floorplan.png">>)

\* one entity of a single point and one of two points: only the second is drawn
C8_Witness ==
    \E r \in Runs :
        /\ pc[r] = "return"
        /\ success[r] = "True"
        /\ Len(slice_2d[r].entities) = 2
        /\ Len(slice_2d[r].entities[1]) = 1
        /\ Len(slice_2d[r].entities[2]) = 2
        /\ Len(drawn[r]) = 1
        /\ drawn[r][1].entity = 2

\* C9: on the same inputs the two source files' pipelines make the same
\* invocations and return the same boolean.
Own(r, n) == IF n = r THEN "own" ELSE n

Shape(r) == [i \in 1..Len(calls[r]) |->
                [tool |-> calls[r][i].tool,
                 dir  |-> Own(r, calls[r][i].dir),
                 name |-> Own(r, calls[r][i].name)]]

C9_SameBehaviour ==
    (Done("r1") /\ Done("r2"))
        => /\ Shape("r1") = Shape("r2")
           /\ returned["r1"] = returned["r2"]

\* C10: when the runs on an output directory do not overlap and a run's tool
\* wrote its artifact strictly newer than every candidate present, the
\* exporter gets that run's config.yml and the rasterizer that run's .ply.
C10_OwnArtifacts ==
    \A r \in Runs :
        ~overlapped
            => /\ (fresh[r].cfg /\ Called(r, "ns-export")
                      => /\ config_path[r].dir = r
                         /\ calls[r][2].dir = r)
               /\ (fresh[r].cfg /\ fresh[r].ply /\ Called(r, "generate_floorplan_from_mesh")
                      => /\ mesh_path[r].name = r
                         /\ calls[r][3].name = r
                         /\ calls[r][3].dir = r)

\* the second of two runs, with the first run's artifacts present, gets its own
C10_Witness ==
    \E r \in Runs :
        /\ ~overlapped
        /\ Done(Other(r))
        /\ returned[Other(r)] = "True"
        /\ Cardinality(ConfigsUnder(output_dir[r])) = 2
        /\ fresh[r].cfg /\ fresh[r].ply
        /\ Called(r, "generate_floorplan_from_mesh")
        /\ mesh_path[r].name = r

====
